---- MODULE Spec2Model ----
(***************************************************************************)
(* A model of src/wordle.py: the Wordle bot's candidate filter             *)
(* (WordleSolver._filter_words), its guess/feedback loop                   *)
(* (WordleSolver.play_until_win, WordleSolver._start_game) and the top     *)
(* level that loads the word list and registers the player (main).         *)
(*                                                                         *)
(* A Python str is modelled as a sequence of one-character strings, so     *)
(* that indexing, len(), "in", lower() and strip() are computed and not    *)
(* assumed.  Python's 0-based positions 0..4 are the positions 1..5 here.  *)
(***************************************************************************)
EXTENDS Integers, Sequences, FiniteSets, TLC

\* ------------------------------------------------------------------------
\* Bounds of the model
\* ------------------------------------------------------------------------

\* The longest file 5words.txt (in lines) that main is given.
MaxLines == 3

\* The longest pool handed to _filter_words when it is checked on its own.
MaxPool == 2

\* ------------------------------------------------------------------------
\* Program constants
\* ------------------------------------------------------------------------

\* range(5) in pick_greens and in _filter_words, len(feedback) != 5 in
\* play_until_win, len(line.strip()) == 5 in main.
WordLen == 5

\* ------------------------------------------------------------------------
\* Strings
\* ------------------------------------------------------------------------

\* Python's None, kept apart from every str (no str holds this element).
None == <<"None">>

UpperCase ==
    <<"A","B","C","D","E","F","G","H","I","J","K","L","M",
      "N","O","P","Q","R","S","T","U","V","W","X","Y","Z">>

LowerCase ==
    <<"a","b","c","d","e","f","g","h","i","j","k","l","m",
      "n","o","p","q","r","s","t","u","v","w","x","y","z">>

\* str.lower() on one character.
LowerChar(c) ==
    IF \E k \in 1..Len(UpperCase) : UpperCase[k] = c
    THEN LowerCase[CHOOSE k \in 1..Len(UpperCase) : UpperCase[k] = c]
    ELSE c

\* str.lower()
Lower(s) == [k \in 1..Len(s) |-> LowerChar(s[k])]

\* "ch in word" for a one-character ch.
CharIn(ch, word) == \E k \in 1..Len(word) : word[k] = ch

\* "sub in s" for strings.
Contains(sub, s) ==
    \E k \in 0..(Len(s) - Len(sub)) : SubSeq(s, k + 1, k + Len(sub)) = sub

\* The characters str.strip() removes.
Whitespace == {" ", "\n", "\t"}

RECURSIVE LStrip(_)
LStrip(s) ==
    IF s # <<>> /\ Head(s) \in Whitespace THEN LStrip(Tail(s)) ELSE s

RECURSIVE RStrip(_)
RStrip(s) ==
    IF s # <<>> /\ s[Len(s)] \in Whitespace
    THEN RStrip(SubSeq(s, 1, Len(s) - 1))
    ELSE s

\* str.strip()
Strip(s) == RStrip(LStrip(s))

\* The sequences over S of length at most n.
SeqsUpTo(S, n) == UNION {[1..k -> S] : k \in 0..n}

\* The permutations of a sequence: what random.shuffle can leave.
Shuffles(s) ==
    {[k \in 1..Len(s) |-> s[p[k]]] :
        p \in {q \in [1..Len(s) -> 1..Len(s)] :
                  \A a, b \in 1..Len(s) : a # b => q[a] # q[b]}}

\* ------------------------------------------------------------------------
\* WordleSolver._filter_words
\* ------------------------------------------------------------------------

\* drop_blacks: no black letter occurs anywhere in the word.
drop_blacks(blacks, word) ==
    \A k \in 1..Len(blacks) : ~CharIn(blacks[k], word)

\* pick_greens without 'greens[i] != " "': the placeholder of a position
\* that is not green is compared like a letter.
pick_greens_without_blank_test(greens, word) ==
    \A i \in 1..WordLen : word[i] = greens[i]

\* pick_greens: the word has every green letter at its position.
pick_greens(greens, word) ==
    \A i \in 1..WordLen : ~(greens[i] # " " /\ word[i] # greens[i])

\* pick_ambers without its test of the bad positions.
pick_ambers_without_positions(ambers, word) ==
    \A ch \in DOMAIN ambers : CharIn(ch, word)

\* pick_ambers with its test of the bad positions turned around: it
\* returns False when the letter is at none of them.
pick_ambers_inverted(ambers, word) ==
    \A ch \in DOMAIN ambers :
        /\ CharIn(ch, word)
        /\ \E k \in 1..Len(ambers[ch]) : word[ambers[ch][k]] = ch

\* pick_ambers counting occurrences: a letter amber at n positions must
\* be in the word n times at least.
pick_ambers_counting(ambers, word) ==
    \A ch \in DOMAIN ambers :
        /\ Cardinality({k \in 1..Len(word) : word[k] = ch})
              >= Len(ambers[ch])
        /\ ~(\E k \in 1..Len(ambers[ch]) : word[ambers[ch][k]] = ch)

\* pick_ambers: every amber letter is in the word, at none of its bad
\* positions.
pick_ambers(ambers, word) ==
    \A ch \in DOMAIN ambers :
        /\ CharIn(ch, word)
        /\ ~(\E k \in 1..Len(ambers[ch]) : word[ambers[ch][k]] = ch)

\* greens, blacks and ambers before the scan of the feedback.
NoConstraints ==
    [greens |-> [i \in 1..WordLen |-> " "],
     blacks |-> <<>>,
     ambers |-> [ch \in {} |-> <<>>]]

\* ambers[guess_char].append(i), creating the list when the letter is new.
AmberAppend(ambers, guess_char, i) ==
    IF guess_char \in DOMAIN ambers
    THEN [ambers EXCEPT ![guess_char] = Append(@, i)]
    ELSE [ch \in DOMAIN ambers \cup {guess_char} |->
             IF ch = guess_char THEN <<i>> ELSE ambers[ch]]

\* One round of "for i in range(5)": the tag at i, lowered, puts guess[i]
\* among the greens, the ambers or the blacks; any other tag is skipped.
ScanStep(c, i, fb, g) ==
    LET letter == LowerChar(fb[i])
        guess_char == g[i]
    IN  CASE letter = "g" -> [c EXCEPT !.greens[i] = guess_char]
          [] letter = "y" ->
                [c EXCEPT !.ambers = AmberAppend(@, guess_char, i)]
          [] letter = "r" -> [c EXCEPT !.blacks = Append(@, guess_char)]
          [] OTHER -> c

\* The loop "for i in range(5)" from position i on.
RECURSIVE ScanFeedback(_, _, _, _)
ScanFeedback(c, i, fb, g) ==
    IF i > WordLen THEN c
    ELSE ScanFeedback(ScanStep(c, i, fb, g), i + 1, fb, g)

\* _filter_words building its list from the back: the words that pass,
\* in reverse order.
FilterWords_reversed(pool, g, fb) ==
    LET c == ScanFeedback(NoConstraints, 1, fb, g)
        kept == SelectSeq(pool,
                    LAMBDA word : /\ drop_blacks(c.blacks, word)
                                  /\ pick_greens(c.greens, word)
                                  /\ pick_ambers(c.ambers, word))
    IN  [k \in 1..Len(kept) |-> kept[Len(kept) + 1 - k]]

\* The pool _filter_words(fb) leaves, for self.guess = g: the words of
\* the pool, in order, that pass the three tests.
FilterWords(pool, g, fb) ==
    LET c == ScanFeedback(NoConstraints, 1, fb, g)
    IN  SelectSeq(pool,
            LAMBDA word : /\ drop_blacks(c.blacks, word)
                          /\ pick_greens(c.greens, word)
                          /\ pick_ambers(c.ambers, word))

\* ------------------------------------------------------------------------
\* main: the word list
\* ------------------------------------------------------------------------

\* all_words = [line.strip() for line in file if len(line.strip()) == 5]
ReadWords(file) ==
    LET stripped == [k \in 1..Len(file) |-> Strip(file[k])]
    IN  SelectSeq(stripped, LAMBDA w : Len(w) = WordLen)

\* ------------------------------------------------------------------------
\* Inputs
\* ------------------------------------------------------------------------

\* The words of the model: two that are anagrams of each other, one with
\* a repeated letter, one that shares no letter with the others.
Words ==
    {<<"a","b","c","d","e">>, <<"b","a","c","d","e">>,
     <<"a","a","b","c","d">>, <<"f","g","h","i","j">>}

\* The words _filter_words is checked with on its own: those, and one
\* that holds the repeated letter once, away from the places it has in
\* the word that repeats it.
PoolWords == Words \cup {<<"b","c","a","d","e">>}

\* The lines 5words.txt may hold: each word with its line end, a word
\* with blanks around it, a word of four letters and an empty line.
FileLines ==
    {Append(w, "\n") : w \in Words}
        \cup {<<" ","a","b","c","d","e"," ","\n">>,
              <<"a","b","c","d","\n">>,
              <<"\n">>}

Files == SeqsUpTo(FileLines, MaxLines)

\* The status codes the server answers /game/create with.
StatusCodes == {200, 201, 500}

\* The feedback of a guess response: absent, empty, too short, too long,
\* all green (in either case) and three that are not.
ResponseFeedbacks ==
    {None, <<>>, <<"g","g","g","g">>, <<"g","g","g","g","g","g">>,
     <<"g","g","g","g","g">>, <<"G","G","g","G","G">>,
     <<"r","r","r","r","r">>, <<"Y","y","g","g","g">>,
     <<"g","y","y","y","r">>}

\* The message of a guess response: absent, or one of the two signals.
ResponseMessages ==
    {None,
     <<"L","i","m","i","t"," ","E","x","c","e","e","d","e","d">>,
     <<"N","O"," ","G","A","M","E">>}

\* What /game/guess answers: a body that is no JSON, or a JSON object.
\* An object with a signal in its message comes without feedback, with
\* five green tags or with five red ones.
Unparsable == [parsable |-> FALSE, feedback |-> None, message |-> None]

Responses ==
    {Unparsable}
        \cup [parsable : {TRUE}, feedback : ResponseFeedbacks,
              message : {None}]
        \cup [parsable : {TRUE},
              feedback : {None, <<"g","g","g","g","g">>,
                          <<"r","r","r","r","r">>},
              message : ResponseMessages \ {None}]

\* The feedbacks _filter_words is checked with on its own: every
\* sequence of five tags, and two in upper case.
Tags == {"g", "y", "r"}

FilterFeedbacks ==
    [1..WordLen -> Tags]
        \cup {<<"G","Y","R","g","y">>, <<"R","R","G","G","Y">>}

\* ------------------------------------------------------------------------
\* State
\* ------------------------------------------------------------------------

VARIABLES
    secret,           \* the server: the word its feedback is scored against
    main_all_words,   \* main: the local all_words read from 5words.txt
    all_words,        \* self.all_words
    available_words,  \* self.available_words
    attempt_num,      \* self.attempt_num
    status,           \* self.status
    guess,            \* self.guess
    response,         \* play_until_win: the local response of the last guess
    pc,               \* where the program stands
    last_step,        \* history: the step taken last, and the status code
                      \*   of /game/create when the step called _start_game
    applied,          \* history: the <<guess, feedback>> pairs filtered
                      \*   with since the last _start_game
    offered           \* history: the guesses popped since the last
                      \*   _start_game, in order

vars ==
    <<secret, main_all_words, all_words, available_words, attempt_num, status,
      guess, response, pc, last_step, applied, offered>>

\* What last_step holds after a step that does not call _start_game,
\* and after one that does.
Step(name) == [step |-> name, code |-> 0]

Called(name, code) == [step |-> name, code |-> code]

\* The local response of play_until_win before the first guess: not yet
\* assigned, and not read before SubmitGuess assigns it.
NoResponse == [parsable |-> FALSE, feedback |-> None, message |-> None]

\* ------------------------------------------------------------------------
\* WordleSolver._start_game
\* ------------------------------------------------------------------------

\* response.status_code in (200, 201)
Created(code) == code \in {200, 201}

\* _start_game without "self.available_words = self.all_words[:]".
StartGame_keeps_pool(code) ==
    /\ attempt_num' = 0
    /\ status' = "PLAY"
    /\ applied' = {}
    /\ offered' = <<>>
    /\ UNCHANGED <<secret, main_all_words, all_words, available_words, guess>>

\* _start_game without "self.attempt_num = 0".
StartGame_keeps_attempt_num(code) ==
    /\ available_words' = all_words
    /\ status' = "PLAY"
    /\ applied' = {}
    /\ offered' = <<>>
    /\ UNCHANGED <<secret, main_all_words, all_words, attempt_num, guess>>

\* _start_game, the server answering with status code: either way the
\* pool is the full list again, the counter 0 and the status PLAY.
StartGame(code) ==
    /\ available_words' = all_words
    /\ attempt_num' = 0
    /\ status' = "PLAY"
    /\ applied' = {}
    /\ offered' = <<>>
    /\ UNCHANGED <<secret, main_all_words, all_words, guess>>

\* ------------------------------------------------------------------------
\* WordleSolver.play_until_win: reading a response
\* ------------------------------------------------------------------------

\* result.get('message', 'No message')
Message(r) ==
    IF r.message = None
    THEN <<"N","o"," ","m","e","s","s","a","g","e">>
    ELSE r.message

\* "exceeded" in message.lower() or "no game" in message.lower()
RestartSignal(message) ==
    \/ Contains(<<"e","x","c","e","e","d","e","d">>, Lower(message))
    \/ Contains(<<"n","o"," ","g","a","m","e">>, Lower(message))

\* "not feedback" alone, without the test of the length.
InvalidFeedback_without_length(feedback) ==
    \/ feedback = None
    \/ feedback = <<>>

\* not feedback or len(feedback) != 5
InvalidFeedback(feedback) ==
    \/ feedback = None
    \/ feedback = <<>>
    \/ Len(feedback) # WordLen

\* all(c == "g" for c in feedback), without lower().
AllGreen_case_sensitive(feedback) ==
    \A k \in 1..Len(feedback) : feedback[k] = "g"

\* all(c.lower() == "g" for c in feedback)
AllGreen(feedback) ==
    \A k \in 1..Len(feedback) : LowerChar(feedback[k]) = "g"

\* The loop body with the test of the message moved behind the tests of
\* the feedback.
Branch_signal_last(r) ==
    IF ~r.parsable THEN "bad_json"
    ELSE IF InvalidFeedback(r.feedback) THEN "invalid"
    ELSE IF AllGreen(r.feedback) THEN "won"
    ELSE IF RestartSignal(Message(r)) THEN "restart"
    ELSE "filter"

\* The branch of the loop body a response takes, in the order of the code.
Branch(r) ==
    IF ~r.parsable THEN "bad_json"
    ELSE IF RestartSignal(Message(r)) THEN "restart"
    ELSE IF InvalidFeedback(r.feedback) THEN "invalid"
    ELSE IF AllGreen(r.feedback) THEN "won"
    ELSE "filter"

\* ------------------------------------------------------------------------
\* main
\* ------------------------------------------------------------------------

\* Before main runs: no variable of the program holds anything yet.
Init ==
    /\ secret = None
    /\ main_all_words = <<>>
    /\ all_words = <<>>
    /\ available_words = <<>>
    /\ attempt_num = 0
    /\ status = "NONE"
    /\ guess = <<>>
    /\ response = NoResponse
    /\ pc = "main"
    /\ last_step = Step("none")
    /\ applied = {}
    /\ offered = <<>>

\* open("5words.txt"): the file is missing and main returns, or its lines
\* of five characters become all_words.
LoadWords ==
    /\ pc = "main"
    /\ \/ /\ pc' = "halted"
          /\ last_step' = Step("no_file")
          /\ UNCHANGED main_all_words
       \/ \E file \in Files :
             /\ main_all_words' = ReadWords(file)
             /\ pc' = "register"
             /\ last_step' = Step("load")
    /\ UNCHANGED <<secret, all_words, available_words, attempt_num, status,
                   guess, response, applied, offered>>

\* The registration: it fails (a request exception, or no id in the
\* answer) and main returns, or the solver is constructed.
Register ==
    /\ pc = "register"
    /\ \/ /\ pc' = "halted"
          /\ last_step' = Step("no_player")
          /\ UNCHANGED <<all_words, available_words, attempt_num, status,
                         guess>>
       \/ /\ all_words' = main_all_words
          /\ available_words' = main_all_words
          /\ attempt_num' = 0
          /\ status' = "PLAY"
          /\ guess' = <<>>
          /\ pc' = "play"
          /\ last_step' = Step("construct")
    /\ UNCHANGED <<secret, main_all_words, response, applied, offered>>

\* ------------------------------------------------------------------------
\* WordleSolver.play_until_win
\* ------------------------------------------------------------------------

\* self._start_game() before the loop.
StartFirstGame ==
    /\ pc = "play"
    /\ \E code \in StatusCodes :
          /\ StartGame(code)
          /\ last_step' = Called("start_first", code)
    /\ pc' = "loop"
    /\ UNCHANGED response

\* The loop without "if not self.available_words": pop(0) on the empty
\* pool raises IndexError.
RestartOnExhaustion_pop_raises ==
    /\ pc = "loop"
    /\ available_words = <<>>
    /\ pc' = "crashed"
    /\ last_step' = Step("index_error")
    /\ UNCHANGED <<secret, main_all_words, all_words, available_words,
                   attempt_num, status, guess, response, applied, offered>>

\* "if not self.available_words": the pool is empty, a new game starts
\* and the loop goes on.
RestartOnExhaustion ==
    /\ pc = "loop"
    /\ available_words = <<>>
    /\ \E code \in StatusCodes :
          /\ StartGame(code)
          /\ last_step' = Called("start_exhausted", code)
    /\ pc' = "loop"
    /\ UNCHANGED response

\* The guess read as available_words[0] and left in the pool.
SubmitGuess_without_pop ==
    /\ pc = "loop"
    /\ available_words # <<>>
    /\ \E shuffled \in Shuffles(available_words) :
          /\ guess' = Head(shuffled)
          /\ available_words' = shuffled
          /\ offered' = Append(offered, Head(shuffled))
    /\ attempt_num' = attempt_num + 1
    /\ \/ \E r \in Responses :
             /\ response' = r
             /\ pc' = "respond"
             /\ last_step' = Step("submit")
       \/ /\ pc' = "crashed"
          /\ last_step' = Step("request_exception")
          /\ UNCHANGED response
    /\ UNCHANGED <<secret, main_all_words, all_words, status, applied>>

\* shuffle, pop(0), attempt_num += 1 and the post of the guess, which
\* brings a response or raises.
SubmitGuess ==
    /\ pc = "loop"
    /\ available_words # <<>>
    /\ \E shuffled \in Shuffles(available_words) :
          /\ guess' = Head(shuffled)
          /\ available_words' = Tail(shuffled)
          /\ offered' = Append(offered, Head(shuffled))
    /\ attempt_num' = attempt_num + 1
    /\ \/ \E r \in Responses :
             /\ response' = r
             /\ pc' = "respond"
             /\ last_step' = Step("submit")
       \/ /\ pc' = "crashed"
          /\ last_step' = Step("request_exception")
          /\ UNCHANGED response
    /\ UNCHANGED <<secret, main_all_words, all_words, status, applied>>

\* The handler of JSONDecodeError putting the failed guess back into the
\* pool before it continues.
BadJson_readds_guess ==
    /\ pc = "respond"
    /\ Branch(response) = "bad_json"
    /\ available_words' = Append(available_words, guess)
    /\ pc' = "loop"
    /\ last_step' = Step("bad_json")
    /\ UNCHANGED response
    /\ UNCHANGED <<secret, main_all_words, all_words, attempt_num, status,
                   guess, applied, offered>>

\* response.json() raises JSONDecodeError: continue.
BadJson ==
    /\ pc = "respond"
    /\ Branch(response) = "bad_json"
    /\ pc' = "loop"
    /\ last_step' = Step("bad_json")
    /\ UNCHANGED response
    /\ UNCHANGED <<secret, main_all_words, all_words, available_words,
                   attempt_num, status, guess, applied, offered>>

\* The message holds "exceeded" or "no game": a new game starts and the
\* loop goes on.
RestartOnSignal ==
    /\ pc = "respond"
    /\ Branch(response) = "restart"
    /\ \E code \in StatusCodes :
          /\ StartGame(code)
          /\ last_step' = Called("start_signal", code)
    /\ pc' = "loop"
    /\ UNCHANGED response

\* The skip of an invalid feedback putting the guess back into the pool.
SkipInvalidFeedback_readds_guess ==
    /\ pc = "respond"
    /\ Branch(response) = "invalid"
    /\ available_words' = Append(available_words, guess)
    /\ pc' = "loop"
    /\ last_step' = Step("invalid")
    /\ UNCHANGED response
    /\ UNCHANGED <<secret, main_all_words, all_words, attempt_num, status,
                   guess, applied, offered>>

\* The feedback is missing or not of length 5: continue.
SkipInvalidFeedback ==
    /\ pc = "respond"
    /\ Branch(response) = "invalid"
    /\ pc' = "loop"
    /\ last_step' = Step("invalid")
    /\ UNCHANGED response
    /\ UNCHANGED <<secret, main_all_words, all_words, available_words,
                   attempt_num, status, guess, applied, offered>>

\* The break on five green tags without "self.status = 'WON'".
Win_without_status ==
    /\ pc = "respond"
    /\ Branch(response) = "won"
    /\ pc' = "done"
    /\ last_step' = Step("won")
    /\ UNCHANGED response
    /\ UNCHANGED <<secret, main_all_words, all_words, available_words,
                   attempt_num, status, guess, applied, offered>>

\* Every tag is green: the status is WON and the loop is left.
Win ==
    /\ pc = "respond"
    /\ Branch(response) = "won"
    /\ status' = "WON"
    /\ pc' = "done"
    /\ last_step' = Step("won")
    /\ UNCHANGED response
    /\ UNCHANGED <<secret, main_all_words, all_words, available_words,
                   attempt_num, guess, applied, offered>>

\* _filter_words filtering self.all_words instead of the current pool.
Filter_from_all_words ==
    /\ pc = "respond"
    /\ Branch(response) = "filter"
    /\ available_words' =
          FilterWords(all_words, guess, Lower(response.feedback))
    /\ applied' = applied \cup {<<guess, Lower(response.feedback)>>}
    /\ pc' = "loop"
    /\ last_step' = Step("filter")
    /\ UNCHANGED <<secret, main_all_words, all_words, attempt_num, status,
                   guess, response, offered>>

\* self._filter_words(feedback.lower())
Filter ==
    /\ pc = "respond"
    /\ Branch(response) = "filter"
    /\ available_words' =
          FilterWords(available_words, guess, Lower(response.feedback))
    /\ applied' = applied \cup {<<guess, Lower(response.feedback)>>}
    /\ pc' = "loop"
    /\ last_step' = Step("filter")
    /\ UNCHANGED response
    /\ UNCHANGED <<secret, main_all_words, all_words, attempt_num, status,
                   guess, offered>>

Next ==
    \/ LoadWords
    \/ Register
    \/ StartFirstGame
    \/ RestartOnExhaustion
    \/ SubmitGuess
    \/ BadJson
    \/ RestartOnSignal
    \/ SkipInvalidFeedback
    \/ Win
    \/ Filter

Spec == Init /\ [][Next]_vars

\* ------------------------------------------------------------------------
\* _filter_words on its own: any guess, any pool, any feedback
\* ------------------------------------------------------------------------

InitFilter ==
    /\ secret = None
    /\ guess \in PoolWords
    /\ available_words \in SeqsUpTo(PoolWords, MaxPool)
    /\ all_words = available_words
    /\ main_all_words = available_words
    /\ attempt_num = 1
    /\ status = "PLAY"
    /\ response = NoResponse
    /\ pc = "filter_call"
    /\ last_step = Step("none")
    /\ applied = {}
    /\ offered = <<guess>>

FilterCall ==
    /\ pc = "filter_call"
    /\ \E fb \in FilterFeedbacks :
          /\ available_words' = FilterWords(available_words, guess, fb)
          /\ applied' = {<<guess, fb>>}
    /\ pc' = "filtered"
    /\ last_step' = Step("filter")
    /\ UNCHANGED response
    /\ UNCHANGED <<secret, main_all_words, all_words, attempt_num, status,
                   guess, offered>>

\* The same call once more: self.guess and the feedback are those of
\* the first call, the pool is what the first call left.
FilterAgain ==
    /\ pc = "filtered"
    /\ \E p \in applied :
          available_words' = FilterWords(available_words, guess, p[2])
    /\ pc' = "filtered_again"
    /\ last_step' = Step("filter")
    /\ UNCHANGED response
    /\ UNCHANGED <<secret, main_all_words, all_words, attempt_num, status,
                   guess, applied, offered>>

NextFilter ==
    \/ FilterCall
    \/ FilterAgain

SpecFilter == InitFilter /\ [][NextFilter]_vars

\* ------------------------------------------------------------------------
\* Vocabulary of the properties
\* ------------------------------------------------------------------------

\* Word w satisfies the constraints feedback fb encodes for guess g:
\* Green at i fixes g[i] at i, Yellow at i wants g[i] in w but not at i,
\* Red at i wants g[i] nowhere in w.
Satisfies(w, g, fb) ==
    \A i \in 1..WordLen :
        /\ LowerChar(fb[i]) = "g" => w[i] = g[i]
        /\ LowerChar(fb[i]) = "y" => (CharIn(g[i], w) /\ w[i] # g[i])
        /\ LowerChar(fb[i]) = "r" => ~CharIn(g[i], w)

\* The steps that call _start_game.
StartSteps == {"start_first", "start_exhausted", "start_signal"}

\* The solver exists: main has constructed it.
Constructed == pc \in {"play", "loop", "respond", "done", "crashed"}

\* The response being handled is a JSON object without restart signal.
PlainResponse ==
    /\ pc = "respond"
    /\ response.parsable
    /\ ~RestartSignal(Message(response))

\* ------------------------------------------------------------------------
\* Properties
\* ------------------------------------------------------------------------

\* C1: every word _filter_words leaves in available_words satisfies all
\* constraints of the feedback it was called with: the guess's letter at
\* every Green position; for every Yellow position the guess's letter
\* somewhere in the word but not there; for every Red position the
\* guess's letter nowhere in the word.
C1_FilteredWordsSatisfyFeedback ==
    pc = "filtered" =>
        \A p \in applied :
            \A k \in 1..Len(available_words) :
                Satisfies(available_words[k], p[1], p[2])

\* A feedback with a Green, a Yellow and a Red tag removed a word of the
\* pool and kept another.
C1_Witness ==
    /\ pc = "filtered"
    /\ available_words # <<>>
    /\ Len(available_words) < Len(all_words)
    /\ \E p \in applied : {LowerChar(p[2][i]) : i \in 1..WordLen} = Tags

\* C2: after every call of _start_game, whatever status code the server
\* answers, available_words is the word list as main loaded it (same
\* words, same size), attempt_num is 0 and status is PLAY; the loop goes
\* on and, when the list is not empty, can submit a guess.  The solver's
\* all_words is at all times the list as loaded.
C2_StartGameResets ==
    /\ Constructed => all_words = main_all_words
    /\ last_step.step \in StartSteps =>
          /\ available_words = main_all_words
          /\ Len(available_words) = Len(main_all_words)
          /\ attempt_num = 0
          /\ status = "PLAY"
          /\ pc = "loop"
          /\ available_words # <<>> => ENABLED SubmitGuess

\* A restart after a guess, the server answering with a failure status:
\* the popped word is back in the pool.
C2_Witness ==
    /\ last_step.step = "start_signal"
    /\ ~Created(last_step.code)
    /\ guess # <<>>
    /\ available_words = main_all_words
    /\ \E k \in 1..Len(available_words) : available_words[k] = guess

\* C3: a response without restart signal whose feedback is five tags,
\* all Green in either case, sets the status to WON and ends the loop;
\* WON is only entered with the loop ended, and from a WON state no step
\* follows: no guess, no new game, no change of pool or counter.
C3_WonIsTerminal ==
    [][/\ ( /\ PlainResponse
            /\ response.feedback # None
            /\ Len(response.feedback) = WordLen
            /\ \A k \in 1..WordLen :
                  response.feedback[k] \in {"g", "G"} )
          => (status' = "WON" /\ pc' = "done")
       /\ status' = "WON" => pc' = "done"
       /\ status = "WON" =>
             /\ status' = "WON"
             /\ pc' = pc
             /\ available_words' = available_words
             /\ attempt_num' = attempt_num
             /\ offered' = offered
             /\ last_step' = last_step
      ]_vars

\* The game is won on a feedback of green tags in mixed case.
C3_Witness ==
    /\ status = "WON"
    /\ pc = "done"
    /\ last_step.step = "won"
    /\ response.feedback = <<"G","G","g","G","G">>

\* C4: within one game no word is offered as a guess twice.
C4_NoWordOfferedTwice ==
    \A i, j \in 1..Len(offered) : i # j => offered[i] # offered[j]

\* C5: in every state of a game, every word of available_words satisfies
\* the constraints of every feedback filtered with since the last
\* _start_game, not only those of the latest.
C5_PoolSatisfiesAllFeedback ==
    Constructed =>
        \A p \in applied :
            \A k \in 1..Len(available_words) :
                Satisfies(available_words[k], p[1], p[2])

\* Two feedbacks were filtered with in one game and a word is left.
C5_Witness ==
    /\ Cardinality(applied) >= 2
    /\ available_words # <<>>
    /\ last_step.step = "filter"

\* C6: with the pool empty at the top of the loop, the only step is the
\* restart: _start_game is called, the session is in PLAY at the top of
\* the loop with the full pool and the counter at 0; nothing is raised,
\* no guess is submitted and the session does not end.
C6_ExhaustionRestarts ==
    [][(pc = "loop" /\ available_words = <<>>) =>
          /\ last_step'.step = "start_exhausted"
          /\ pc' = "loop"
          /\ status' = "PLAY"
          /\ available_words' = all_words
          /\ attempt_num' = 0
          /\ guess' = guess
      ]_vars

\* A restart on exhaustion of a list that is not empty.
C6_Witness ==
    /\ last_step.step = "start_exhausted"
    /\ all_words # <<>>
    /\ available_words = all_words
    /\ pc = "loop"

\* C7: a response without restart signal whose feedback is missing,
\* empty or not of length 5 changes nothing: the pool stays as the pop
\* left it, the counter keeps its increment, the status stays PLAY and
\* the loop goes on.
C7_InvalidFeedbackSkips ==
    [][( /\ PlainResponse
         /\ \/ response.feedback = None
            \/ response.feedback = <<>>
            \/ Len(response.feedback) # WordLen )
       => /\ available_words' = available_words
          /\ attempt_num' = attempt_num
          /\ offered' = offered
          /\ applied' = applied
          /\ guess' = guess
          /\ status' = "PLAY"
          /\ pc' = "loop"
      ]_vars

\* A feedback of four tags was skipped: the guess is gone from the pool
\* and counted.
C7_Witness ==
    /\ last_step.step = "invalid"
    /\ response.feedback = <<"g","g","g","g">>
    /\ pc = "loop"
    /\ status = "PLAY"
    /\ attempt_num = 1
    /\ Len(available_words) + 1 = Len(all_words)

\* C8: after an unparsable response body, and likewise after an
\* exception raised by the request, the session is still in PLAY at the
\* top of the loop.
C8_TransientErrorsNeverSurface ==
    last_step.step \in {"bad_json", "request_exception"} =>
        (pc = "loop" /\ status = "PLAY")

\* C9: with an empty word list the program halts in main: the session
\* never restarts a game for an exhausted pool on an empty list.
C9_EmptyListHalts ==
    ~(main_all_words = <<>> /\ last_step.step = "start_exhausted")

\* C10: attempt_num is a natural number equal to the number of guesses
\* popped since the last _start_game: 0 right after a game start, one
\* more with every guess, also when its response is unparsable or its
\* feedback invalid.
C10_AttemptNumCountsGuesses ==
    /\ attempt_num \in Nat
    /\ Constructed =>
          /\ attempt_num = Len(offered)
          /\ last_step.step \in StartSteps => attempt_num = 0

\* The second guess of a game got an unparsable response.
C10_Witness ==
    /\ last_step.step = "bad_json"
    /\ attempt_num = 2
    /\ Len(offered) = 2

\* The number of entries of s equal to w.
Count(w, s) == Cardinality({k \in 1..Len(s) : s[k] = w})

\* a is b with some entries left out, the others in their order.
RECURSIVE IsSubseq(_, _)
IsSubseq(a, b) ==
    IF a = <<>> THEN TRUE
    ELSE IF b = <<>> THEN FALSE
    ELSE IF Head(a) = Head(b) THEN IsSubseq(Tail(a), Tail(b))
    ELSE IsSubseq(a, Tail(b))

\* C11: _filter_words called a second time with the same guess and the
\* same feedback, on the pool the first call left, leaves that pool as
\* it is.
C11_FilterIdempotent ==
    [][(pc = "filtered" /\ pc' = "filtered_again") =>
          available_words' = available_words]_vars

\* The second call was made on a pool from which the first call had
\* removed a word and kept one.
C11_Witness ==
    /\ pc = "filtered_again"
    /\ available_words # <<>>
    /\ Len(available_words) < Len(all_words)

\* C12: the pool _filter_words leaves is no longer than the pool it was
\* given and is a subsequence of it (no word added, the order kept), and
\* every word of the input that satisfies the Green, Yellow and Red
\* constraints of the feedback is still there, as often as before.
C12_FilterMonotone ==
    pc = "filtered" =>
        /\ Len(available_words) <= Len(all_words)
        /\ IsSubseq(available_words, all_words)
        /\ \A p \in applied :
              \A k \in 1..Len(all_words) :
                  Satisfies(all_words[k], p[1], p[2]) =>
                      Count(all_words[k], available_words)
                          = Count(all_words[k], all_words)

\* Of two different words the first was removed and the second kept,
\* by a feedback with a Green tag.
C12_Witness ==
    /\ pc = "filtered"
    /\ Len(all_words) = 2
    /\ all_words[1] # all_words[2]
    /\ available_words = <<all_words[2]>>
    /\ \E p \in applied : \E i \in 1..WordLen : p[2][i] = "g"

\* The messages that hold "exceeded" or "no game", in upper or mixed case.
SignalMessages ==
    {<<"L","i","m","i","t"," ","E","x","c","e","e","d","e","d">>,
     <<"N","O"," ","G","A","M","E">>}

\* C13: a response whose message holds the attempt-limit signal or the
\* no-active-game signal, in any case, makes the session call
\* _start_game and go on, whatever its feedback: the pool is the full
\* list (not a filtered one), the status PLAY (never WON, also for five
\* Green tags), the counter 0, and the loop continues.
C13_SignalRestartsFirst ==
    [][( /\ pc = "respond"
         /\ response.parsable
         /\ response.message \in SignalMessages )
       => /\ last_step'.step = "start_signal"
          /\ available_words' = all_words
          /\ applied' = {}
          /\ attempt_num' = 0
          /\ status' = "PLAY"
          /\ pc' = "loop"
      ]_vars

\* A response with "NO GAME" and five Green tags restarted the game.
C13_Witness ==
    /\ last_step.step = "start_signal"
    /\ response.message = <<"N","O"," ","G","A","M","E">>
    /\ response.feedback = <<"g","g","g","g","g">>
    /\ status = "PLAY"
    /\ pc = "loop"
    /\ available_words = all_words
    /\ all_words # <<>>

\* C14: an unparsable response body changes nothing beyond the guess
\* already consumed: the guess is not put back, the pool stays as the
\* pop left it (no filtering, no restart), the counter keeps its
\* increment, the status stays PLAY; and the next iteration pops its
\* guess from that pool.
C14_UnparsableConsumesGuessOnly ==
    [][/\ (pc = "respond" /\ ~response.parsable) =>
             /\ last_step'.step = "bad_json"
             /\ available_words' = available_words
             /\ attempt_num' = attempt_num
             /\ guess' = guess
             /\ offered' = offered
             /\ applied' = applied
             /\ status' = "PLAY"
             /\ pc' = "loop"
       /\ (pc = "loop" /\ last_step.step = "bad_json"
               /\ available_words # <<>>) =>
             /\ Count(guess', available_words) >= 1
             /\ Len(available_words') = Len(available_words) - 1
             /\ \A k \in 1..Len(available_words') :
                   Count(available_words'[k], available_words')
                       <= Count(available_words'[k], available_words)
      ]_vars

\* The first guess of a game got an unparsable response: one entry of
\* the guessed word is gone from the pool, and a word is left to guess.
C14_Witness ==
    /\ last_step.step = "bad_json"
    /\ pc = "loop"
    /\ status = "PLAY"
    /\ attempt_num = 1
    /\ available_words # <<>>
    /\ Len(available_words) = Len(all_words) - 1
    /\ Count(guess, available_words) = Count(guess, all_words) - 1

\* Every word is in a at most as often as in b.
SubBag(a, b) ==
    \A k \in 1..Len(a) : Count(a[k], a) <= Count(a[k], b)

\* C15: between two calls of _start_game the pool only shrinks: every
\* step that is not a restart (the pop of a guess, the filtering, a
\* skipped iteration) leaves a pool whose words are among those of the
\* pool before, as often at most; the pool grows only by a restart,
\* which makes it the full word list.
C15_PoolShrinksUntilRestart ==
    [][Constructed =>
          /\ last_step'.step \notin StartSteps =>
                SubBag(available_words', available_words)
          /\ ~SubBag(available_words', available_words) =>
                /\ last_step'.step \in StartSteps
                /\ available_words' = all_words
      ]_vars

\* A filtering removed a word the pop had left, and kept another.
C15_Witness ==
    /\ last_step.step = "filter"
    /\ available_words # <<>>
    /\ Len(available_words) + 1 < Len(all_words)

\* The feedback of standard Wordle for guess g against secret s: Green
\* where the letters agree; of the other places of a letter, from the
\* left, as many Yellow as s holds that letter outside the Green places;
\* Red for the rest.
WordleFeedback(g, s) ==
    [i \in 1..WordLen |->
        IF g[i] = s[i] THEN "g"
        ELSE IF Cardinality({j \in 1..(i - 1) : g[j] = g[i] /\ g[j] # s[j]})
                  < Cardinality({k \in 1..WordLen :
                                    s[k] = g[i] /\ g[k] # s[k]})
        THEN "y"
        ELSE "r"]

\* Guess g has one letter at two places, tagged t1 at one and t2 at the
\* other.
RepeatedWithTags(g, fb, t1, t2) ==
    \E i, j \in 1..WordLen :
        /\ i # j
        /\ g[i] = g[j]
        /\ LowerChar(fb[i]) = t1
        /\ LowerChar(fb[j]) = t2

\* C16: the filter knows presence, absence and excluded positions of a
\* letter, not how often it occurs.  Over-filtering: when the guess has
\* the same letter Green or Yellow at one position and Red at another,
\* the pool is emptied, so a secret that gives this feedback is removed.
\* Under-filtering: when a letter is Yellow at two positions, a word that
\* holds it once only and meets the constraints is kept, although
\* standard Wordle gives another feedback for it.
C16_FilterIgnoresCounts ==
    pc = "filtered" =>
        \A p \in applied :
            /\ ( \/ RepeatedWithTags(p[1], p[2], "g", "r")
                 \/ RepeatedWithTags(p[1], p[2], "y", "r") )
               => available_words = <<>>
            /\ \A i, j \in 1..WordLen :
                  ( /\ i # j
                    /\ p[1][i] = p[1][j]
                    /\ LowerChar(p[2][i]) = "y"
                    /\ LowerChar(p[2][j]) = "y" )
                  => \A k \in 1..Len(all_words) :
                        ( /\ Count(p[1][i], all_words[k]) = 1
                          /\ Satisfies(all_words[k], p[1], p[2]) )
                        => /\ Count(all_words[k], available_words) >= 1
                           /\ WordleFeedback(p[1], all_words[k]) # Lower(p[2])

\* Over-filtering: the pool held the secret, the feedback was the one of
\* standard Wordle for it, with a letter of the guess Green at one place
\* and Red at another, and the secret is gone.  Under-filtering: for the
\* guess aabcd and five Yellow tags, bcade is kept.
C16_Witness ==
    /\ pc = "filtered"
    /\ \E p \in applied :
          \E k \in 1..Len(all_words) :
              /\ p[2] = WordleFeedback(p[1], all_words[k])
              /\ RepeatedWithTags(p[1], p[2], "g", "r")
              /\ Count(all_words[k], available_words) = 0
    /\ FilterWords(<<(<<"b","c","a","d","e">>)>>, <<"a","a","b","c","d">>,
                   <<"y","y","y","y","y">>)
          = <<(<<"b","c","a","d","e">>)>>
    /\ WordleFeedback(<<"a","a","b","c","d">>, <<"b","c","a","d","e">>)
          # <<"y","y","y","y","y">>

\* C17: after _filter_words with a feedback of five tags that is not
\* all Green, no entry of the pool equals the guess: the guess fails its
\* own Yellow or Red constraint, so duplicates of it are removed too.
C17_GuessRemovedByOwnFeedback ==
    pc = "filtered" =>
        \A p \in applied :
            (\E i \in 1..WordLen : LowerChar(p[2][i]) # "g") =>
                Count(guess, available_words) = 0

\* The pool held the guessed word twice; a feedback with Green and
\* Yellow tags removed both entries.
C17_Witness ==
    /\ pc = "filtered"
    /\ Count(guess, all_words) = 2
    /\ Count(guess, available_words) = 0
    /\ \E p \in applied :
          /\ \E i \in 1..WordLen : p[2][i] = "g"
          /\ \E i \in 1..WordLen : p[2][i] = "y"
          /\ \A i \in 1..WordLen : p[2][i] # "r"

\* No letter is in g twice.
NoRepeat(g) == \A i, j \in 1..Len(g) : i # j => g[i] # g[j]

\* C18: when the guess has no repeated letter and the feedback is the
\* one of standard Wordle for a secret, _filter_words does not remove
\* the secret: every entry of the input pool equal to it is still in the
\* pool.
C18_SecretSurvives ==
    pc = "filtered" =>
        \A p \in applied :
            NoRepeat(p[1]) =>
                \A k \in 1..Len(all_words) :
                    WordleFeedback(p[1], all_words[k]) = Lower(p[2]) =>
                        Count(all_words[k], available_words)
                            = Count(all_words[k], all_words)

\* The guess has no repeated letter and is not the secret; the feedback
\* is the true one, with a Yellow tag; the secret was kept and the other
\* word of the pool removed.
C18_Witness ==
    /\ pc = "filtered"
    /\ NoRepeat(guess)
    /\ Len(all_words) = 2
    /\ Len(available_words) = 1
    /\ available_words[1] # guess
    /\ \E p \in applied :
          /\ p[2] = WordleFeedback(guess, available_words[1])
          /\ \E i \in 1..WordLen : p[2][i] = "y"

\* C19: once the solver exists, attempt_num + len(available_words) is at
\* most len(all_words) in every state; hence attempt_num, the number of
\* guesses of the game, is at most len(all_words).
C19_GuessesPlusPoolBounded ==
    Constructed =>
        /\ attempt_num + Len(available_words) <= Len(all_words)
        /\ attempt_num <= Len(all_words)
        /\ Len(offered) <= Len(all_words)

\* A game of a list of two or more words has offered as many guesses as
\* the list has words: the pool is empty and the next step is a restart.
C19_Witness ==
    /\ pc = "loop"
    /\ Len(all_words) >= 2
    /\ attempt_num = Len(all_words)
    /\ available_words = <<>>
    /\ status = "PLAY"

\* ------------------------------------------------------------------------
\* play_until_win against a server that answers every guess truthfully
\* ------------------------------------------------------------------------

\* The words of the lists: no letter twice.
HonestWords ==
    {w \in Words : NoRepeat(w)} \cup {<<"a","b","c","d","f">>}

\* The answer to guess g: a JSON object with the feedback of g against
\* the secret and without message.
HonestResponse(g) ==
    [parsable |-> TRUE, feedback |-> WordleFeedback(g, secret),
     message |-> None]

\* The solver constructed on a non-empty list of such words, the secret
\* one of them.
InitHonest ==
    /\ all_words \in {l \in SeqsUpTo(HonestWords, MaxLines) : l # <<>>}
    /\ secret \in {all_words[k] : k \in 1..Len(all_words)}
    /\ main_all_words = all_words
    /\ available_words = all_words
    /\ attempt_num = 0
    /\ status = "PLAY"
    /\ guess = <<>>
    /\ response = NoResponse
    /\ pc = "play"
    /\ last_step = Step("construct")
    /\ applied = {}
    /\ offered = <<>>

\* shuffle, pop(0), attempt_num += 1 and the post of the guess, which
\* brings the truthful answer.
SubmitGuessHonest ==
    /\ pc = "loop"
    /\ available_words # <<>>
    /\ \E shuffled \in Shuffles(available_words) :
          /\ guess' = Head(shuffled)
          /\ available_words' = Tail(shuffled)
          /\ offered' = Append(offered, Head(shuffled))
          /\ response' = HonestResponse(Head(shuffled))
    /\ attempt_num' = attempt_num + 1
    /\ pc' = "respond"
    /\ last_step' = Step("submit")
    /\ UNCHANGED <<secret, main_all_words, all_words, status, applied>>

\* The steps of play_until_win such a server leaves to take.
NextHonest ==
    \/ StartFirstGame
    \/ SubmitGuessHonest
    \/ Win
    \/ Filter

\* The program is one thread that takes its next step whenever it has
\* one, and the server answers every request.
SpecHonest == InitHonest /\ [][NextHonest]_vars /\ WF_vars(NextHonest)

\* With such a server the pool at the head of the loop holds the secret,
\* so the restart of an empty pool is never taken; every response leads
\* to the win or to the filtering; no game is started after the first;
\* and no more guesses are made than the list has words.
HonestRun ==
    /\ pc = "loop" => Count(secret, available_words) >= 1
    /\ pc = "respond" => Branch(response) \in {"won", "filter"}
    /\ last_step.step \notin {"start_exhausted", "start_signal"}
    /\ attempt_num <= Len(all_words)
    /\ Len(offered) <= Len(all_words)
    /\ attempt_num = Len(offered)

\* C20: with a non-empty list of words without repeated letter, a fixed
\* secret of the list and truthful, parsable answers without restart
\* signal, the session eventually has status WON, the guess being the
\* secret, after at most len(all_words) guesses and without a game start
\* after the first.
C20_HonestServerWins ==
    /\ [](HonestRun)
    /\ <>(status = "WON" /\ pc = "done" /\ guess = secret)

\* The session won with its last word: a list of two or more words, as
\* many guesses as words.
C20_Witness ==
    /\ status = "WON"
    /\ pc = "done"
    /\ guess = secret
    /\ Len(all_words) >= 2
    /\ attempt_num = Len(all_words)
    /\ last_step.step = "won"

====
